---------------------------- MODULE Spec2Model ----------------------------
(***************************************************************************)
(* The file-backed shared string cache of contrib/roafteriniter/cache.h.   *)
(*                                                                         *)
(* Several processes map one backing file and share one named semaphore.   *)
(* The file is a 16 byte header (length, count) followed by an arena of    *)
(* NUL-terminated strings.  Every step of every public function is one     *)
(* action; the system calls a function makes may fail where the code       *)
(* handles their failure.                                                  *)
(*                                                                         *)
(* Bytes are kept run-length encoded: a byte string is a sequence of runs  *)
(* <<byte, n>> (n copies of byte), adjacent runs holding different bytes.  *)
(* All operators on byte strings below are exact on the bytes encoded.     *)
(***************************************************************************)
EXTENDS Integers, Sequences, FiniteSets, TLC

VARIABLES
  sem,      \* value of the named semaphore; -1 while it does not exist
  fsize,    \* size in bytes of the backing file; -1 while it does not exist
  hdr,      \* struct cachehdr at file offset 0: [length, count]
  arena,    \* the file's bytes from offset HeaderSize to its end
  dirty,    \* the mapping was written since the last msync
  h,        \* h[p]: the struct cache of process p
  pc,       \* pc[p]: where process p is
  op,       \* op[p]: the public function p is executing
  item,     \* item[p]: the string argument of that call
  ret,      \* ret[p]: the value the call returns
  out,      \* out[p]: the lines cache_debug_traverse printed
  ptr,      \* ptr[p]: _cache_insert's local ptr, as an arena offset
  tmp,      \* tmp[p]: header fields loaded by _cache_insert's +=
  arg,      \* arg[p]: the arguments of the cache_map p is executing
  rel,      \* rel[p]: what became of the three releases of p's cache_unmap
  calls,    \* number of calls made so far
  insOK,    \* successful insertions since the region was initialised
  lenOK,    \* sum of strlen + 1 over those insertions
  inserted, \* those strings, in the order of their insertion
  plain,    \* some of them were inserted by cache_insert
  inited,   \* some cache_map has initialised the region of the file
  done,     \* <<p, s>>: a cache_insert(s) of process p has stored its header
  pre,      \* pre[p]: the file and inserted strings when p took the lock
  last,     \* last[p]: string and outcome of the cache_notcontains_insert
            \* that was p's previous call, if it was one
  det       \* det[p]: the file and the size of p's handle when p's previous
            \* call, a cache_unmap, detached it

vars == <<sem, fsize, hdr, arena, dirty, h, pc, op, item, ret, out, ptr, tmp,
          arg, rel, calls, insOK, lenOK, inserted, plain, inited, done, pre, last,
          det>>

---------------------------------------------------------------------------
(* Bounds of the model.  Addresses are AddrBits wide (uint64_t in the      *)
(* code); mmap returns addresses far below the top of the address space.   *)
NumProcs == 2
MaxCalls == 4
AddrBits == 16

Procs == 1..NumProcs

---------------------------------------------------------------------------
(* Constants of cache.h.                                                   *)
HeaderSize == 16
PageSize == 4096
AddrSpace == 2^AddrBits

CACHE_OP_SUCCESS        == 0
CACHE_OPEN_FAILED       == 2^0
CACHE_FTRUNC_FAILED     == 2^1
CACHE_MAP_FAILED        == 2^2
CACHE_LOCK_INIT_FAILED  == 2^3
CACHE_INSERTION_SUCCESS == 2^4
CACHE_INSERTION_FAILED  == 2^5
CACHE_CONTAINS_SUCCESS  == 2^6
CACHE_CONTAINS_FAILED   == 2^7
CACHE_MUNMAP_FAILED     == 2^8
CACHE_CLOSE_FAILED      == 2^9
CACHE_SEMCLOSE_FAILED   == 2^10
CACHE_EINVAL            == 2^11

---------------------------------------------------------------------------
(* Byte strings, run-length encoded.                                       *)

Rep(c, n) == IF n = 0 THEN <<>> ELSE << <<c, n>> >>

RECURSIVE BLen(_)
BLen(r) == IF r = <<>> THEN 0 ELSE Head(r)[2] + BLen(Tail(r))

\* the first k bytes of r
RECURSIVE Take(_, _)
Take(r, k) ==
  IF k <= 0 \/ r = <<>> THEN <<>>
  ELSE IF Head(r)[2] <= k THEN <<Head(r)>> \o Take(Tail(r), k - Head(r)[2])
  ELSE << <<Head(r)[1], k>> >>

\* r without its first k bytes
RECURSIVE Drop(_, _)
Drop(r, k) ==
  IF k <= 0 \/ r = <<>> THEN r
  ELSE IF Head(r)[2] <= k THEN Drop(Tail(r), k - Head(r)[2])
  ELSE << <<Head(r)[1], Head(r)[2] - k>> >> \o Tail(r)

\* the same bytes, adjacent runs of one byte merged
RECURSIVE Norm(_)
Norm(r) ==
  IF r = <<>> THEN <<>>
  ELSE IF Head(r)[2] = 0 THEN Norm(Tail(r))
  ELSE IF Len(r) = 1 THEN r
  ELSE IF r[2][2] = 0 THEN Norm(<<r[1]>> \o Tail(Tail(r)))
  ELSE IF r[1][1] = r[2][1]
       THEN Norm(<< <<r[1][1], r[1][2] + r[2][2]>> >> \o Tail(Tail(r)))
  ELSE <<r[1]>> \o Norm(Tail(r))

Cat(r, s) == Norm(r \o s)

\* the byte at offset o of r (o < BLen(r))
ByteAt(r, o) == Head(Drop(r, o))[1]

\* r with the bytes s stored at offset o (o + BLen(s) <= BLen(r))
Store(r, o, s) == Norm(Take(r, o) \o s \o Drop(r, o + BLen(s)))

\* number of bytes before the first zero byte of d, or BLen(d) if it has none
RECURSIVE NonZeroPrefix(_)
NonZeroPrefix(d) ==
  IF d = <<>> \/ Head(d)[1] = 0 THEN 0
  ELSE Head(d)[2] + NonZeroPrefix(Tail(d))

---------------------------------------------------------------------------
(* C strings: byte strings without a zero byte.  NULL, the null pointer,    *)
(* is a value that is no string.                                           *)
NULL == << <<-1, 1>> >>
strlen(s) == BLen(s)

\* the strings the processes pass: "", "A", "B", and two of 'A's that leave
\* one byte of a one-page arena free, resp. fill it exactly
Strings == { <<>>, Rep(65, 1), Rep(66, 1),
             Rep(65, PageSize - HeaderSize - 2),
             Rep(65, PageSize - HeaderSize - 1) }
ItemArgs == Strings \cup {NULL}

\* the arguments of cache_map: is cache NULL, is fname NULL, is lockname
\* NULL, and size
SizeArgs == {0, PageSize + HeaderSize, PageSize, 2 * PageSize}
MapArgs == {<<FALSE, FALSE, FALSE, sz>> : sz \in SizeArgs}
           \cup {<<TRUE, FALSE, FALSE, PageSize>>,
                 <<FALSE, TRUE, FALSE, PageSize>>,
                 <<FALSE, FALSE, TRUE, PageSize>>}

\* the addresses mmap may return for a mapping
MmapAddrs == {2 * PageSize}

---------------------------------------------------------------------------
(* What a process sees through its mapping.                                *)

\* a successfully mapped handle: fd, mapping and lock are valid
Attached(p) == h[p].lock /\ h[p].fd /\ h[p].mapped

Min(a, b) == IF a < b THEN a ELSE b

\* the arena bytes a handle of the given size can access: those inside its
\* mapping and inside the file
CACHE_DATA(size) == Take(arena, Min(size, fsize) - HeaderSize)

\* an access past CACHE_DATA(size) is past the end of the file but inside
\* the mapping (SIGBUS), or else outside the mapping (undefined)
PastEOF(size) == size > fsize

\* the strings stored in the bytes v from offset o on, as the while (*ptr)
\* loops of _cache_contains and cache_debug_traverse find them; the scan
\* ends at a zero byte ("end") or leaves v ("oob")
RECURSIVE Walk(_, _)
Walk(v, o) ==
  IF o >= BLen(v) THEN [items |-> <<>>, stop |-> "oob"]
  ELSE IF ByteAt(v, o) = 0 THEN [items |-> <<>>, stop |-> "end"]
  ELSE LET n == NonZeroPrefix(Drop(v, o)) IN
       IF o + n >= BLen(v) THEN [items |-> <<>>, stop |-> "oob"]
       ELSE LET rest == Walk(v, o + n + 1) IN
            [items |-> <<Take(Drop(v, o), n)>> \o rest.items, stop |-> rest.stop]

Range(f) == {f[i] : i \in DOMAIN f}

\* a scan that compares str with the first stored string only
ScanFirst(v, str) ==
  LET w == Walk(v, 0) IN
  IF w.items # <<>> /\ w.items[1] = str THEN "found"
  ELSE IF w.stop = "end" \/ w.items # <<>> THEN "absent" ELSE "oob"

\* _cache_contains on the bytes v: "found", "absent", or "oob" when the scan
\* leaves v before it finds str
ScanFor(v, str) ==
  LET w == Walk(v, 0) IN
  IF str \in Range(w.items) THEN "found"
  ELSE IF w.stop = "end" THEN "absent" ELSE "oob"

\* the capacity test of _cache_insert, in unsigned arithmetic modulo M
InsertRejected(M, base, size, length, slen) ==
  LET p0 == (base + HeaderSize + length) % M
      copyend == (p0 + slen + 1) % M
      copystart == base
  IN  (copyend < copystart) \/ ((copyend - copystart) > size)

---------------------------------------------------------------------------
(* The initial state: no semaphore, no backing file, no process attached.  *)

NoHandle == [size |-> 0, lock |-> FALSE, fd |-> FALSE, mapped |-> FALSE,
             base |-> 0]
ZeroHdr == [length |-> 0, count |-> 0]
NoPre == [fsize |-> -1, hdr |-> ZeroHdr, arena |-> <<>>, inserted |-> <<>>,
          inited |-> FALSE]
NoArg == <<TRUE, TRUE, TRUE, 0>>
NoRel == <<"none", "none", "none">>
NoLast == [str |-> NULL, ok |-> FALSE, ret |-> CACHE_OP_SUCCESS]
NoDet == [size |-> 0, fsize |-> -1, hdr |-> ZeroHdr, arena |-> <<>>]

Init ==
  /\ sem = -1
  /\ fsize = -1
  /\ hdr = ZeroHdr
  /\ arena = <<>>
  /\ dirty = FALSE
  /\ h = [p \in Procs |-> NoHandle]
  /\ pc = [p \in Procs |-> "idle"]
  /\ op = [p \in Procs |-> "none"]
  /\ item = [p \in Procs |-> NULL]
  /\ ret = [p \in Procs |-> CACHE_OP_SUCCESS]
  /\ out = [p \in Procs |-> <<>>]
  /\ ptr = [p \in Procs |-> 0]
  /\ tmp = [p \in Procs |-> ZeroHdr]
  /\ arg = [p \in Procs |-> NoArg]
  /\ rel = [p \in Procs |-> NoRel]
  /\ calls = 0
  /\ insOK = 0
  /\ lenOK = 0
  /\ inserted = <<>>
  /\ plain = FALSE
  /\ inited = FALSE
  /\ done = {}
  /\ pre = [p \in Procs |-> NoPre]
  /\ last = [p \in Procs |-> NoLast]
  /\ det = [p \in Procs |-> NoDet]

file == <<fsize, hdr, arena, dirty>>
ghost == <<insOK, lenOK, inserted, plain, inited, done>>
locals == <<item, out, ptr, tmp, arg, rel>>
hist == <<pre, last, det>>

\* process p starts a call of function f
Enter(p, f) ==
  /\ pc[p] = "idle"
  /\ calls < MaxCalls
  /\ calls' = calls + 1
  /\ op' = [op EXCEPT ![p] = f]

\* the call of p, which does not hold the lock, is about to return r
Result(p, r) ==
  /\ ret' = [ret EXCEPT ![p] = r]
  /\ pc' = [pc EXCEPT ![p] = "ret"]
  /\ UNCHANGED pre

\* the call of p, which holds the lock, is about to unlock and return r
Leave(p, r) ==
  /\ ret' = [ret EXCEPT ![p] = r]
  /\ pc' = [pc EXCEPT ![p] = "unlock"]

\* the call of p has returned: its arguments and locals are gone
Returned(p) ==
  /\ pc' = [pc EXCEPT ![p] = "idle"]
  /\ op' = [op EXCEPT ![p] = "none"]
  /\ item' = [item EXCEPT ![p] = NULL]
  /\ ret' = [ret EXCEPT ![p] = CACHE_OP_SUCCESS]
  /\ out' = [out EXCEPT ![p] = <<>>]
  /\ ptr' = [ptr EXCEPT ![p] = 0]
  /\ tmp' = [tmp EXCEPT ![p] = ZeroHdr]
  /\ arg' = [arg EXCEPT ![p] = NoArg]
  /\ rel' = [rel EXCEPT ![p] = NoRel]
  /\ pre' = [pre EXCEPT ![p] = NoPre]
  /\ last' = [last EXCEPT ![p] =
                IF op[p] = "cache_notcontains_insert" /\ item[p] # NULL
                THEN [str |-> item[p],
                      ok |-> ret[p] \in {CACHE_CONTAINS_SUCCESS,
                                         CACHE_INSERTION_SUCCESS},
                      ret |-> ret[p]]
                ELSE NoLast]
  /\ det' = IF op[p] = "cache_unmap" /\ ret[p] # CACHE_EINVAL
            THEN det ELSE [det EXCEPT ![p] = NoDet]

Goto(p, l) == pc' = [pc EXCEPT ![p] = l]

\* a fatal signal ends process p where it is
Killed(p) == pc' = [pc EXCEPT ![p] = "crashed"]

---------------------------------------------------------------------------
(* The semaphore.                                                          *)

\* sem_open setting the value of an existing semaphore to 1 again
sem_open_reset(s) == 1

\* sem_open(lockname, O_CREAT, 0666, 1): the value of the semaphore after
\* the call, given its value before
_cache_lock_init(s) == IF s = -1 THEN 1 ELSE s

\* a sem_wait that never blocks
sem_wait_never_blocks(s) == TRUE

\* sem_wait can return
sem_wait(s) == s > 0

\* a _cache_lock that goes on without waiting for the semaphore
_cache_lock_no_wait(p, s, l) ==
  /\ sem' = s - 1
  /\ pre' = [pre EXCEPT ![p] = [fsize |-> fsize, hdr |-> hdr,
                                 arena |-> arena, inserted |-> inserted,
                                 inited |-> inited]]
  /\ Goto(p, l)

\* _cache_lock on a semaphore of value s: p goes on to l once sem_wait has
\* returned
_cache_lock(p, s, l) ==
  /\ sem_wait(s)
  /\ sem' = s - 1
  /\ pre' = [pre EXCEPT ![p] = [fsize |-> fsize, hdr |-> hdr,
                                 arena |-> arena, inserted |-> inserted,
                                 inited |-> inited]]
  /\ Goto(p, l)

\* _cache_unlock: sem_post, after which the function returns ret[p]
_cache_unlock(p) ==
  /\ pc[p] = "unlock"
  /\ sem' = sem + 1
  /\ Returned(p)
  /\ UNCHANGED <<file, h, calls, ghost>>

\* a function that does not hold the lock returns ret[p]
Return(p) ==
  /\ pc[p] = "ret"
  /\ Returned(p)
  /\ UNCHANGED <<sem, file, h, calls, ghost>>

---------------------------------------------------------------------------
(* cache_map.                                                              *)

\* an argument test that accepts sizes that are no multiple of the page size
cache_map_EINVAL_unaligned(a) == a[1] \/ a[2] \/ a[3] \/ a[4] = 0

\* the argument test of cache_map; a = <<cache is NULL, fname is NULL,
\* lockname is NULL, size>>
cache_map_EINVAL(a) == a[1] \/ a[2] \/ a[3] \/ a[4] = 0 \/ (a[4] % PageSize) # 0

\* cache_map up to the return of _cache_lock: the argument test, the store
\* to cache->size, sem_open, which may fail, and sem_wait
cache_map(p, a) ==
  /\ Enter(p, "cache_map")
  /\ ~Attached(p)
  /\ arg' = [arg EXCEPT ![p] = a]
  /\ IF cache_map_EINVAL(a)
     THEN /\ Result(p, CACHE_EINVAL)
          /\ UNCHANGED <<sem, h>>
     ELSE \/ /\ h' = [h EXCEPT ![p].size = a[4], ![p].lock = TRUE]
             /\ _cache_lock(p, _cache_lock_init(sem), "open")
             /\ UNCHANGED ret
          \/ /\ h' = [h EXCEPT ![p].size = a[4], ![p].lock = FALSE]
             /\ Result(p, CACHE_LOCK_INIT_FAILED)
             /\ UNCHANGED sem
  /\ UNCHANGED <<file, item, out, ptr, tmp, rel, ghost, last, det>>

\* the two calls of open: without O_CREAT, and if that fails with O_CREAT
cache_map_open(p) ==
  /\ pc[p] = "open"
  /\ \/ /\ fsize # -1
        /\ h' = [h EXCEPT ![p].fd = TRUE]
        /\ Goto(p, "mmap_existing")
        /\ UNCHANGED <<fsize, ret>>
     \/ /\ fsize' = IF fsize = -1 THEN 0 ELSE fsize
        /\ h' = [h EXCEPT ![p].fd = TRUE]
        /\ Goto(p, "ftruncate")
        /\ UNCHANGED ret
     \/ /\ h' = [h EXCEPT ![p].fd = FALSE]
        /\ Leave(p, CACHE_OPEN_FAILED)
        /\ UNCHANGED fsize
  /\ UNCHANGED <<sem, hdr, arena, dirty, op, locals, calls, hist, ghost>>

\* the bytes r cut or extended with zero bytes to n bytes
Resize(r, n) == Norm(Take(r, n) \o Rep(0, IF BLen(r) < n THEN n - BLen(r) ELSE 0))

\* a cache_map that does not set ret when ftruncate fails
cache_map_ftruncate_keeps_ret(p) ==
  /\ pc[p] = "ftruncate"
  /\ \/ /\ fsize' = h[p].size
        /\ arena' = Resize(arena, h[p].size - HeaderSize)
        /\ hdr' = IF fsize < HeaderSize THEN ZeroHdr ELSE hdr
        /\ Goto(p, "mmap_created")
     \/ /\ Goto(p, "close_fd")
        /\ UNCHANGED <<fsize, arena, hdr>>
  /\ UNCHANGED <<sem, dirty, h, op, ret, locals, calls, hist, ghost>>

\* ftruncate(cache->fd, cache->size)
cache_map_ftruncate(p) ==
  /\ pc[p] = "ftruncate"
  /\ \/ /\ fsize' = h[p].size
        /\ arena' = Resize(arena, h[p].size - HeaderSize)
        /\ hdr' = IF fsize < HeaderSize THEN ZeroHdr ELSE hdr
        /\ Goto(p, "mmap_created")
        /\ UNCHANGED ret
     \/ /\ ret' = [ret EXCEPT ![p] = CACHE_FTRUNC_FAILED]
        /\ Goto(p, "close_fd")
        /\ UNCHANGED <<fsize, arena, hdr>>
  /\ UNCHANGED <<sem, dirty, h, op, locals, calls, hist, ghost>>

\* _cache_map: mmap of cache->size bytes of the file, shared
_cache_map(p) ==
  /\ pc[p] \in {"mmap_existing", "mmap_created"}
  /\ \/ \E b \in MmapAddrs :
          /\ h' = [h EXCEPT ![p].mapped = TRUE, ![p].base = b]
          /\ IF pc[p] = "mmap_existing"
             THEN Leave(p, CACHE_OP_SUCCESS)
             ELSE Goto(p, "init") /\ UNCHANGED ret
     \/ /\ h' = [h EXCEPT ![p].mapped = FALSE]
        /\ ret' = [ret EXCEPT ![p] = CACHE_MAP_FAILED]
        /\ Goto(p, "close_fd")
  /\ UNCHANGED <<sem, file, op, locals, calls, hist, ghost>>

\* memset(cache->hdr, 0, cache->size) and the two header stores
cache_map_init(p) ==
  /\ pc[p] = "init"
  /\ arena' = Rep(0, BLen(arena))
  /\ hdr' = ZeroHdr
  /\ dirty' = TRUE
  /\ insOK' = 0 /\ lenOK' = 0 /\ inserted' = <<>> /\ plain' = FALSE
  /\ inited' = TRUE
  /\ Goto(p, "sync")
  /\ UNCHANGED <<sem, fsize, h, op, ret, locals, calls, hist, done>>

\* a close_fd path that returns without _cache_unlock
cache_map_close_fd_no_unlock(p) ==
  /\ pc[p] = "close_fd"
  /\ h' = [h EXCEPT ![p].fd = FALSE]
  /\ Goto(p, "ret")
  /\ UNCHANGED <<sem, file, op, ret, locals, calls, hist, ghost>>

\* the label close_fd: close(cache->fd)
cache_map_close_fd(p) ==
  /\ pc[p] = "close_fd"
  /\ h' = [h EXCEPT ![p].fd = FALSE]
  /\ Goto(p, "unlock")
  /\ UNCHANGED <<sem, file, op, ret, locals, calls, hist, ghost>>

\* a _cache_sync whose msync writes nothing back
_cache_sync_no_flush(p) ==
  /\ pc[p] = "sync"
  /\ Leave(p, IF op[p] = "cache_map" THEN CACHE_OP_SUCCESS
                                     ELSE CACHE_INSERTION_SUCCESS)
  /\ UNCHANGED <<sem, file, h, op, locals, calls, hist, ghost>>

\* _cache_sync: msync(MS_SYNC|MS_INVALIDATE), then the result of the
\* creating cache_map or of _cache_insert
_cache_sync(p) ==
  /\ pc[p] = "sync"
  /\ dirty' = FALSE
  /\ Leave(p, IF op[p] = "cache_map" THEN CACHE_OP_SUCCESS
                                     ELSE CACHE_INSERTION_SUCCESS)
  /\ UNCHANGED <<sem, fsize, hdr, arena, h, op, locals, calls, hist, ghost>>

---------------------------------------------------------------------------
(* cache_unmap.                                                            *)

\* the result of cache_unmap when sem_close, munmap, close fail (TRUE)
cache_unmap_ret(f1, f2, f3) ==
  (IF f1 THEN CACHE_SEMCLOSE_FAILED ELSE 0)
  + (IF f2 THEN CACHE_MUNMAP_FAILED ELSE 0)
  + (IF f3 THEN CACHE_CLOSE_FAILED ELSE 0)

\* a release that was attempted and failed (TRUE) or succeeded
Release(f) == IF f THEN "failed" ELSE "done"

\* a cache_unmap that returns at the first release that fails
cache_unmap_stops_at_failure(p, cnull) ==
  /\ Enter(p, "cache_unmap")
  /\ cnull \/ Attached(p)
  /\ IF cnull
     THEN Result(p, CACHE_EINVAL) /\ UNCHANGED <<h, det, rel>>
     ELSE \E f1, f2, f3 \in BOOLEAN :
            /\ Result(p, IF f1 THEN CACHE_SEMCLOSE_FAILED
                         ELSE IF f2 THEN CACHE_MUNMAP_FAILED
                         ELSE IF f3 THEN CACHE_CLOSE_FAILED
                         ELSE CACHE_OP_SUCCESS)
            /\ rel' = [rel EXCEPT ![p] =
                         <<Release(f1),
                           IF f1 THEN "none" ELSE Release(f2),
                           IF f1 \/ f2 THEN "none" ELSE Release(f3)>>]
            /\ h' = [h EXCEPT ![p] = NoHandle]
            /\ det' = [det EXCEPT ![p] = [size |-> h[p].size, fsize |-> fsize,
                                           hdr |-> hdr, arena |-> arena]]
  /\ UNCHANGED <<sem, file, item, out, ptr, tmp, arg, ghost, last>>

cache_unmap(p, cnull) ==
  /\ Enter(p, "cache_unmap")
  /\ cnull \/ Attached(p)
  /\ IF cnull
     THEN Result(p, CACHE_EINVAL) /\ UNCHANGED <<h, det, rel>>
     ELSE \E f1, f2, f3 \in BOOLEAN :
            /\ Result(p, cache_unmap_ret(f1, f2, f3))
            /\ rel' = [rel EXCEPT ![p] = <<Release(f1), Release(f2),
                                            Release(f3)>>]
            /\ h' = [h EXCEPT ![p] = NoHandle]
            /\ det' = [det EXCEPT ![p] = [size |-> h[p].size, fsize |-> fsize,
                                           hdr |-> hdr, arena |-> arena]]
  /\ UNCHANGED <<sem, file, item, out, ptr, tmp, arg, ghost, last>>

---------------------------------------------------------------------------
(* cache_insert, cache_contains, cache_notcontains_insert and              *)
(* cache_debug_traverse.  A caller passes NULL or a handle it has mapped.  *)

\* a cache_insert that does not test item
cache_insert_unchecked(p, cnull, str) ==
  /\ Enter(p, "cache_insert")
  /\ cnull \/ Attached(p)
  /\ IF cnull
     THEN Result(p, CACHE_EINVAL) /\ UNCHANGED <<sem, item>>
     ELSE /\ item' = [item EXCEPT ![p] = str]
          /\ _cache_lock(p, sem, "insert")
          /\ UNCHANGED ret
  /\ UNCHANGED <<file, h, out, ptr, tmp, arg, rel, ghost, last, det>>

\* cache_insert up to the return of _cache_lock
cache_insert(p, cnull, str) ==
  /\ Enter(p, "cache_insert")
  /\ cnull \/ Attached(p)
  /\ IF cnull \/ str = NULL
     THEN Result(p, CACHE_EINVAL) /\ UNCHANGED <<sem, item>>
     ELSE /\ item' = [item EXCEPT ![p] = str]
          /\ _cache_lock(p, sem, "insert")
          /\ UNCHANGED ret
  /\ UNCHANGED <<file, h, out, ptr, tmp, arg, rel, ghost, last, det>>

\* a cache_contains that does not test item
cache_contains_unchecked(p, cnull, str) ==
  /\ Enter(p, "cache_contains")
  /\ cnull \/ Attached(p)
  /\ IF cnull
     THEN Result(p, CACHE_EINVAL) /\ UNCHANGED <<sem, item>>
     ELSE /\ item' = [item EXCEPT ![p] = str]
          /\ _cache_lock(p, sem, "contains")
          /\ UNCHANGED ret
  /\ UNCHANGED <<file, h, out, ptr, tmp, arg, rel, ghost, last, det>>

\* cache_contains up to the return of _cache_lock
cache_contains(p, cnull, str) ==
  /\ Enter(p, "cache_contains")
  /\ cnull \/ Attached(p)
  /\ IF cnull \/ str = NULL
     THEN Result(p, CACHE_EINVAL) /\ UNCHANGED <<sem, item>>
     ELSE /\ item' = [item EXCEPT ![p] = str]
          /\ _cache_lock(p, sem, "contains")
          /\ UNCHANGED ret
  /\ UNCHANGED <<file, h, out, ptr, tmp, arg, rel, ghost, last, det>>

\* cache_notcontains_insert up to the return of _cache_lock
cache_notcontains_insert(p, cnull, str) ==
  /\ Enter(p, "cache_notcontains_insert")
  /\ cnull \/ Attached(p)
  /\ IF cnull \/ str = NULL
     THEN Result(p, CACHE_EINVAL) /\ UNCHANGED <<sem, item>>
     ELSE /\ item' = [item EXCEPT ![p] = str]
          /\ _cache_lock(p, sem, "contains")
          /\ UNCHANGED ret
  /\ UNCHANGED <<file, h, out, ptr, tmp, arg, rel, ghost, last, det>>

\* cache_debug_traverse up to the return of _cache_lock
cache_debug_traverse(p, cnull) ==
  /\ Enter(p, "cache_debug_traverse")
  /\ cnull \/ Attached(p)
  /\ IF cnull THEN Result(p, CACHE_OP_SUCCESS) /\ UNCHANGED sem
              ELSE _cache_lock(p, sem, "traverse") /\ UNCHANGED ret
  /\ UNCHANGED <<file, h, locals, ghost, last, det>>

\* what a scan that ended as r ("found", "absent", "oob") can do in a
\* mapping of the given size: a read past the end of the file raises SIGBUS,
\* a read outside the mapping is undefined
ScanOutcomes(r, size) ==
  IF r # "oob" THEN {r}
  ELSE IF PastEOF(size) THEN {"crash"}
  ELSE {"found", "absent", "crash"}

\* what the scan of _cache_contains for str can do; strcmp never finds the
\* empty string at a byte that is not zero, whatever the bytes are
ContainsOutcomes(v, str, size) ==
  ScanOutcomes(ScanFor(v, str), size) \ (IF str = <<>> THEN {"found"} ELSE {})

\* a _cache_contains that goes on to insert a string it did not find,
\* whoever called it
_cache_contains_then_insert(p) ==
  /\ pc[p] = "contains"
  /\ \E o \in ContainsOutcomes(CACHE_DATA(h[p].size), item[p], h[p].size) :
       CASE o = "crash" -> Killed(p) /\ UNCHANGED ret
         [] o = "found" -> Leave(p, CACHE_CONTAINS_SUCCESS)
         [] OTHER -> /\ ret' = [ret EXCEPT ![p] = CACHE_CONTAINS_FAILED]
                     /\ Goto(p, "insert")
  /\ UNCHANGED <<sem, file, h, op, locals, calls, hist, ghost>>

\* _cache_contains, called by cache_contains and cache_notcontains_insert
_cache_contains(p) ==
  /\ pc[p] = "contains"
  /\ \E o \in ContainsOutcomes(CACHE_DATA(h[p].size), item[p], h[p].size) :
       CASE o = "crash" -> Killed(p) /\ UNCHANGED ret
         [] o = "found" -> Leave(p, CACHE_CONTAINS_SUCCESS)
         [] OTHER -> IF op[p] = "cache_contains"
                     THEN Leave(p, CACHE_CONTAINS_FAILED)
                     ELSE /\ ret' = [ret EXCEPT ![p] = CACHE_CONTAINS_FAILED]
                          /\ Goto(p, "insert")
  /\ UNCHANGED <<sem, file, h, op, locals, calls, hist, ghost>>

\* a _cache_insert without the length test
_cache_insert_no_length_test(p) ==
  /\ pc[p] = "insert"
  /\ IF fsize < HeaderSize
     THEN Killed(p) /\ UNCHANGED <<ret, ptr>>
     ELSE IF InsertRejected(AddrSpace, h[p].base, h[p].size, hdr.length,
                            strlen(item[p]))
     THEN Leave(p, CACHE_INSERTION_FAILED) /\ UNCHANGED ptr
     ELSE /\ ptr' = [ptr EXCEPT ![p] = hdr.length]
          /\ Goto(p, "copy")
          /\ UNCHANGED ret
  /\ UNCHANGED <<sem, file, h, op, item, out, tmp, arg, rel, calls, hist, ghost>>

\* _cache_insert up to strncpy: the length test and the capacity test
_cache_insert(p) ==
  /\ pc[p] = "insert"
  /\ IF strlen(item[p]) = 0
     THEN Leave(p, CACHE_INSERTION_FAILED) /\ UNCHANGED ptr
     ELSE IF fsize < HeaderSize
     THEN Killed(p) /\ UNCHANGED <<ret, ptr>>
     ELSE IF InsertRejected(AddrSpace, h[p].base, h[p].size, hdr.length,
                            strlen(item[p]))
     THEN Leave(p, CACHE_INSERTION_FAILED) /\ UNCHANGED ptr
     ELSE /\ ptr' = [ptr EXCEPT ![p] = hdr.length]
          /\ Goto(p, "copy")
          /\ UNCHANGED ret
  /\ UNCHANGED <<sem, file, h, op, item, out, tmp, arg, rel, calls, hist, ghost>>

\* a strncpy that leaves out the last byte of str
_cache_insert_strncpy_short(p) ==
  /\ pc[p] = "copy"
  /\ arena' = Store(arena, ptr[p], Take(item[p], strlen(item[p]) - 1))
  /\ Goto(p, "load")
  /\ dirty' = TRUE
  /\ UNCHANGED <<sem, fsize, hdr, h, op, ret, locals, calls, hist, ghost>>

\* strncpy(ptr, str, strlen(str)): the bytes of str without its NUL; a
\* store past the end of the file raises SIGBUS, before which strncpy has
\* stored none or all of the bytes that lie inside the file
_cache_insert_strncpy(p) ==
  /\ pc[p] = "copy"
  /\ LET room == BLen(arena) - ptr[p] IN
     IF strlen(item[p]) <= room
     THEN /\ arena' = Store(arena, ptr[p], item[p])
          /\ Goto(p, "load")
     ELSE /\ \E k \in {0, IF room > 0 THEN room ELSE 0} :
               arena' = Store(arena, ptr[p], Take(item[p], k))
          /\ Killed(p)
  /\ dirty' = TRUE
  /\ UNCHANGED <<sem, fsize, hdr, h, op, ret, locals, calls, hist, ghost>>

\* the loads of cache->hdr->length += ... and cache->hdr->count += 1
_cache_insert_load(p) ==
  /\ pc[p] = "load"
  /\ tmp' = [tmp EXCEPT ![p] = hdr]
  /\ Goto(p, "store")
  /\ UNCHANGED <<sem, file, h, op, item, ret, out, ptr, arg, rel, calls, hist,
                  ghost>>

\* a header update that leaves count as it is
AddItemLengthOnly(t, slen) == [length |-> t.length + slen + 1, count |-> t.count]

\* the header after _cache_insert's two += of a string of slen bytes
AddItem(t, slen) == [length |-> t.length + slen + 1, count |-> t.count + 1]

\* a _cache_insert that returns after the two += without _cache_sync
_cache_insert_store_no_sync(p) ==
  /\ pc[p] = "store"
  /\ hdr' = AddItem(tmp[p], strlen(item[p]))
  /\ dirty' = TRUE
  /\ insOK' = insOK + 1
  /\ lenOK' = lenOK + strlen(item[p]) + 1
  /\ inserted' = Append(inserted, item[p])
  /\ plain' = (plain \/ op[p] = "cache_insert")
  /\ done' = IF op[p] = "cache_insert" THEN done \cup {<<p, item[p]>>} ELSE done
  /\ Leave(p, CACHE_INSERTION_SUCCESS)
  /\ UNCHANGED <<sem, fsize, arena, h, op, locals, calls, hist, inited>>

\* the stores of the two +=
_cache_insert_store(p) ==
  /\ pc[p] = "store"
  /\ hdr' = AddItem(tmp[p], strlen(item[p]))
  /\ dirty' = TRUE
  /\ insOK' = insOK + 1
  /\ lenOK' = lenOK + strlen(item[p]) + 1
  /\ inserted' = Append(inserted, item[p])
  /\ plain' = (plain \/ op[p] = "cache_insert")
  /\ done' = IF op[p] = "cache_insert" THEN done \cup {<<p, item[p]>>} ELSE done
  /\ Goto(p, "sync")
  /\ UNCHANGED <<sem, fsize, arena, h, op, ret, locals, calls, hist, inited>>

\* a line of bytes that are not the cache's
GARBAGE == Rep(255, 1)

\* the loop of cache_debug_traverse
cache_debug_traverse_loop(p) ==
  /\ pc[p] = "traverse"
  /\ LET w == Walk(CACHE_DATA(h[p].size), 0) IN
     \E o \in ScanOutcomes(IF w.stop = "end" THEN "absent" ELSE "oob", h[p].size) :
       CASE o = "crash" -> /\ out' = [out EXCEPT ![p] = w.items]
                           /\ Killed(p) /\ UNCHANGED ret
         [] o = "found" -> /\ out' = [out EXCEPT ![p] = Append(w.items, GARBAGE)]
                           /\ Leave(p, CACHE_OP_SUCCESS)
         [] OTHER -> /\ out' = [out EXCEPT ![p] = w.items]
                     /\ Leave(p, CACHE_OP_SUCCESS)
  /\ UNCHANGED <<sem, file, h, op, item, ptr, tmp, arg, rel, calls, hist, ghost>>

---------------------------------------------------------------------------
Next ==
  \E p \in Procs :
    \/ \E a \in MapArgs : cache_map(p, a)
    \/ cache_map_open(p)
    \/ cache_map_ftruncate(p)
    \/ _cache_map(p)
    \/ cache_map_init(p)
    \/ cache_map_close_fd(p)
    \/ _cache_sync(p)
    \/ _cache_unlock(p)
    \/ Return(p)
    \/ \E cnull \in BOOLEAN : cache_unmap(p, cnull)
    \/ \E cnull \in BOOLEAN, str \in ItemArgs : cache_insert(p, cnull, str)
    \/ \E cnull \in BOOLEAN, str \in ItemArgs : cache_contains(p, cnull, str)
    \/ \E cnull \in BOOLEAN, str \in ItemArgs :
         cache_notcontains_insert(p, cnull, str)
    \/ \E cnull \in BOOLEAN : cache_debug_traverse(p, cnull)
    \/ _cache_contains(p)
    \/ _cache_insert(p)
    \/ _cache_insert_strncpy(p)
    \/ _cache_insert_load(p)
    \/ _cache_insert_store(p)
    \/ cache_debug_traverse_loop(p)

Spec == Init /\ [][Next]_vars

---------------------------------------------------------------------------
(* The same processes where a signal from outside (SIGKILL, the OOM        *)
(* killer) may end a process anywhere between _cache_lock and              *)
(* _cache_unlock.                                                          *)

LockHeld == {"open", "ftruncate", "mmap_existing", "mmap_created", "init",
             "close_fd", "sync", "contains", "insert", "copy", "load",
             "store", "traverse", "unlock"}

\* a kill after which the system releases the lock of the dead process
kill_releases_lock(p) ==
  /\ pc[p] \in LockHeld
  /\ Killed(p)
  /\ sem' = sem + 1
  /\ UNCHANGED <<file, h, op, ret, locals, calls, hist, ghost>>

\* process p is killed while it holds the lock: nothing posts the
\* semaphore for it
kill(p) ==
  /\ pc[p] \in LockHeld
  /\ Killed(p)
  /\ UNCHANGED <<sem, file, h, op, ret, locals, calls, hist, ghost>>

NextKill == Next \/ \E p \in Procs : kill(p)

SpecKill == Init /\ [][NextKill]_vars

---------------------------------------------------------------------------
(* The same processes with the wait in sem_wait as a step of its own: a    *)
(* call first blocks in _cache_lock (pc "wait") and goes on when sem_wait  *)
(* returns.  A process that can run does run, and while the semaphore is   *)
(* positive and processes wait in sem_wait, sem_wait returns in one of     *)
(* them; which one is not determined.                                      *)

\* where function f goes on when _cache_lock has returned
AfterLock(f) ==
  CASE f = "cache_map" -> "open"
    [] f = "cache_insert" -> "insert"
    [] f = "cache_debug_traverse" -> "traverse"
    [] OTHER -> "contains"

\* cache_map up to the call of sem_wait
cache_map_wait(p, a) ==
  /\ Enter(p, "cache_map")
  /\ ~Attached(p)
  /\ arg' = [arg EXCEPT ![p] = a]
  /\ IF cache_map_EINVAL(a)
     THEN /\ Result(p, CACHE_EINVAL)
          /\ UNCHANGED <<sem, h>>
     ELSE \/ /\ h' = [h EXCEPT ![p].size = a[4], ![p].lock = TRUE]
             /\ sem' = _cache_lock_init(sem)
             /\ Goto(p, "wait")
             /\ UNCHANGED <<ret, pre>>
          \/ /\ h' = [h EXCEPT ![p].size = a[4], ![p].lock = FALSE]
             /\ Result(p, CACHE_LOCK_INIT_FAILED)
             /\ UNCHANGED sem
  /\ UNCHANGED <<file, item, out, ptr, tmp, rel, ghost, last, det>>

\* cache_insert, cache_contains, cache_notcontains_insert (f, with item
\* str) and cache_debug_traverse (f, str is NULL) up to the call of sem_wait
data_wait(p, f, cnull, str) ==
  /\ Enter(p, f)
  /\ cnull \/ Attached(p)
  /\ IF cnull \/ (str = NULL /\ f # "cache_debug_traverse")
     THEN /\ Result(p, IF f = "cache_debug_traverse" THEN CACHE_OP_SUCCESS
                                                      ELSE CACHE_EINVAL)
          /\ UNCHANGED item
     ELSE /\ item' = [item EXCEPT ![p] = str]
          /\ Goto(p, "wait")
          /\ UNCHANGED <<ret, pre>>
  /\ UNCHANGED <<sem, file, h, out, ptr, tmp, arg, rel, ghost, last, det>>

\* a sem_wait that returns in process 1 only
sem_wait_returns_in_first(p) ==
  /\ pc[p] = "wait"
  /\ p = 1
  /\ _cache_lock(p, sem, AfterLock(op[p]))
  /\ UNCHANGED <<file, h, op, ret, locals, calls, ghost, last, det>>

\* sem_wait returns in process p, which waited in _cache_lock
sem_wait_returns(p) ==
  /\ pc[p] = "wait"
  /\ _cache_lock(p, sem, AfterLock(op[p]))
  /\ UNCHANGED <<file, h, op, ret, locals, calls, ghost, last, det>>

\* a step of process p that runs: one between _cache_lock and the return
Step(p) ==
  \/ cache_map_open(p)
  \/ cache_map_ftruncate(p)
  \/ _cache_map(p)
  \/ cache_map_init(p)
  \/ cache_map_close_fd(p)
  \/ _cache_sync(p)
  \/ _cache_contains(p)
  \/ _cache_insert(p)
  \/ _cache_insert_strncpy(p)
  \/ _cache_insert_load(p)
  \/ _cache_insert_store(p)
  \/ cache_debug_traverse_loop(p)
  \/ _cache_unlock(p)
  \/ Return(p)

\* the arguments passed where processes wait for each other
WaitItems == {NULL, Rep(65, 1)}
WaitMapArgs == {<<FALSE, FALSE, FALSE, sz>> : sz \in {0, PageSize}}

NextWait ==
  \/ \E p \in Procs :
       \/ \E a \in WaitMapArgs : cache_map_wait(p, a)
       \/ \E cnull \in BOOLEAN, str \in WaitItems :
            \E f \in {"cache_insert", "cache_contains",
                      "cache_notcontains_insert"} : data_wait(p, f, cnull, str)
       \/ \E cnull \in BOOLEAN : data_wait(p, "cache_debug_traverse", cnull, NULL)
       \/ \E cnull \in BOOLEAN : cache_unmap(p, cnull)
       \/ Step(p)
  \/ \E p \in Procs : sem_wait_returns(p)

Fairness ==
  /\ \A p \in Procs : WF_vars(Step(p))
  /\ WF_vars(\E p \in Procs : sem_wait_returns(p))

SpecWait == Init /\ [][NextWait]_vars /\ Fairness

---------------------------------------------------------------------------
(* The capacity test of _cache_insert on its own.  Its inputs are the      *)
(* address mmap returned, the size of the handle, hdr.length as the        *)
(* backing file holds it (cache_map maps an existing file without looking  *)
(* at its contents) and the length of the string, which lies in the same   *)
(* address space as the mapping; each is taken near the values where the   *)
(* sums of the test change their behaviour.                                *)
Span == 2

\* the addresses at most Span away from x
Around(x) == {(x + d + AddrSpace) % AddrSpace : d \in -Span..Span}

\* the sizes of a handle and the page-aligned addresses of a mapping of
\* that size
GuardSizes == {PageSize, 2 * PageSize}
GuardBases(size) ==
  {b \in {k * PageSize : k \in 1..(AddrSpace \div PageSize)} :
     b + size <= AddrSpace}

\* values of hdr.length: an empty and a full arena, and the values at which
\* CACHE_ENDPTR passes the end of the address space
GuardLengths(base, size) ==
  Around(0) \cup Around(size - HeaderSize) \cup Around(AddrSpace - HeaderSize)
    \cup Around(AddrSpace - base - HeaderSize)

\* lengths of the string: short ones, those that fill an arena, and the
\* longest the address space holds beside the mapping
GuardStrlens(size) ==
  {n \in (0..Span) \cup Around(size - HeaderSize)
           \cup Around(AddrSpace - size - Span - 2) :
     n + 1 + size < AddrSpace}

\* process 1 holds the lock and is about to run _cache_insert
InitGuard ==
  /\ \E size \in GuardSizes : \E base \in GuardBases(size) :
       /\ h = [p \in Procs |->
                 IF p = 1 THEN [size |-> size, lock |-> TRUE, fd |-> TRUE,
                                mapped |-> TRUE, base |-> base]
                          ELSE NoHandle]
       /\ fsize = size
       /\ arena = Rep(0, size - HeaderSize)
       /\ \E length \in GuardLengths(base, size) :
            hdr = [length |-> length, count |-> 0]
       /\ \E slen \in GuardStrlens(size) :
            item = [p \in Procs |-> IF p = 1 THEN Rep(65, slen) ELSE NULL]
  /\ sem = 0
  /\ dirty = FALSE
  /\ pc = [p \in Procs |-> IF p = 1 THEN "insert" ELSE "idle"]
  /\ op = [p \in Procs |-> IF p = 1 THEN "cache_insert" ELSE "none"]
  /\ ret = [p \in Procs |-> CACHE_OP_SUCCESS]
  /\ out = [p \in Procs |-> <<>>]
  /\ ptr = [p \in Procs |-> 0]
  /\ tmp = [p \in Procs |-> ZeroHdr]
  /\ arg = [p \in Procs |-> NoArg]
  /\ rel = [p \in Procs |-> NoRel]
  /\ calls = 1
  /\ insOK = 0
  /\ lenOK = 0
  /\ inserted = <<>>
  /\ plain = FALSE
  /\ inited = TRUE
  /\ done = {}
  /\ pre = [p \in Procs |-> NoPre]
  /\ last = [p \in Procs |-> NoLast]
  /\ det = [p \in Procs |-> NoDet]

NextGuard == \E p \in Procs : _cache_insert(p)

SpecGuard == InitGuard /\ [][NextGuard]_vars

---------------------------------------------------------------------------
(* Properties.                                                             *)

\* the labels between _cache_lock and _cache_unlock
Critical == {"open", "ftruncate", "mmap_existing", "mmap_created", "init",
             "close_fd", "sync", "contains", "insert", "copy", "load",
             "store", "traverse", "unlock"}

\* p holds the lock: it is in a critical section or was killed in one
Holds(p) == pc[p] \in Critical \cup {"crashed"}

\* no call is in a critical section: every call that took the lock has
\* returned or was killed
Quiescent == \A p \in Procs : pc[p] \notin Critical

\* the call of p has run to its end: it is about to unlock and return
\* ret[p], or it was killed and returns nothing
Ended(p) == pc[p] \in {"unlock", "crashed"}

\* the strings a scan of the whole arena finds
StoredItems == Walk(arena, 0).items

Distinct(s) == \A i, j \in DOMAIN s : i # j => s[i] # s[j]

AllZero(r) == \A i \in DOMAIN r : r[i][1] = 0

\* the strings of s, each followed by one zero byte, back to back
RECURSIVE Packed(_)
Packed(s) == IF s = <<>> THEN <<>>
             ELSE Cat(Cat(Head(s), Rep(0, 1)), Packed(Tail(s)))

\* C1: mutual exclusion: in every reachable state at most one process is
\* between _cache_lock and _cache_unlock of cache_insert, cache_contains,
\* cache_notcontains_insert, cache_debug_traverse or cache_map (a process
\* killed there still holds the lock).
C1_MutualExclusion == Cardinality({p \in Procs : Holds(p)}) <= 1

\* a process is about to store the header while another attached process
\* is idle and the semaphore is taken
C1_Witness ==
  \E p, q \in Procs :
    /\ p # q
    /\ pc[p] = "store" /\ pc[q] = "idle" /\ Attached(q)
    /\ sem = 0

\* C2: no lost updates: whenever no call is in progress, hdr.count is the
\* number of inserts that returned CACHE_INSERTION_SUCCESS since the region
\* was initialised and hdr.length is the sum of strlen + 1 of their strings.
C2_NoLostUpdates ==
  Quiescent => hdr.count = insOK /\ hdr.length = lenOK

\* two processes are attached and two inserts have succeeded
C2_Witness ==
  /\ Quiescent
  /\ \A p \in Procs : p <= 2 => Attached(p)
  /\ insOK = 2 /\ hdr.count = 2

\* C3: no duplicate inserts: if every string stored since the region was
\* initialised was stored by cache_notcontains_insert, then whenever no
\* call is in progress no string occurs twice among the stored items.
C3_NoDuplicates ==
  Quiescent /\ ~plain => Distinct(StoredItems)

\* two processes have each called cache_notcontains_insert with the same
\* string, both calls found or stored it, and it was stored once
C3_Witness ==
  /\ Quiescent /\ ~plain /\ insOK = 1
  /\ \E p, q \in Procs :
       /\ p # q
       /\ last[p].ok /\ last[q].ok
       /\ last[p].str = last[q].str
       /\ StoredItems = <<last[p].str>>

\* C4: for a non-empty string s, cache_contains(s) returns
\* CACHE_CONTAINS_FAILED when s was not inserted before and
\* CACHE_CONTAINS_SUCCESS when it was, and a cache_insert(s) of an s not
\* inserted before increases hdr.count by exactly 1.
C4_ContainsFollowsInsert ==
  \A p \in Procs :
    /\ (Ended(p) /\ op[p] = "cache_contains" /\ strlen(item[p]) > 0)
         => ret[p] = IF item[p] \in Range(pre[p].inserted)
                     THEN CACHE_CONTAINS_SUCCESS
                     ELSE CACHE_CONTAINS_FAILED
    /\ (Ended(p) /\ op[p] = "cache_insert" /\ strlen(item[p]) > 0
          /\ item[p] \notin Range(pre[p].inserted))
         => hdr.count = pre[p].hdr.count + 1

\* C5: capacity rule: a cache_insert of a non-empty string returns
\* CACHE_INSERTION_SUCCESS exactly when hdr.length + strlen + 1 <=
\* region_size - 16 in the state before it, region_size being the size of
\* the backing file, and returns CACHE_INSERTION_FAILED otherwise.
C5_CapacityRule ==
  \A p \in Procs :
    (Ended(p) /\ op[p] = "cache_insert" /\ strlen(item[p]) > 0)
      => ret[p] = IF pre[p].hdr.length + strlen(item[p]) + 1
                       <= fsize - HeaderSize
                  THEN CACHE_INSERTION_SUCCESS
                  ELSE CACHE_INSERTION_FAILED

\* C6: a cache_insert or cache_notcontains_insert of a non-empty string
\* that returns CACHE_INSERTION_FAILED leaves hdr.length, hdr.count and
\* every arena byte as they were when the call took the lock.
C6_RejectedInsertChangesNothing ==
  \A p \in Procs :
    (/\ pc[p] = "unlock"
     /\ op[p] \in {"cache_insert", "cache_notcontains_insert"}
     /\ ret[p] = CACHE_INSERTION_FAILED
     /\ strlen(item[p]) > 0)
      => hdr = pre[p].hdr /\ arena = pre[p].arena

\* an insert into a store that holds a string is rejected for lack of room
C6_Witness ==
  \E p \in Procs :
    /\ pc[p] = "unlock"
    /\ op[p] \in {"cache_insert", "cache_notcontains_insert"}
    /\ ret[p] = CACHE_INSERTION_FAILED
    /\ strlen(item[p]) > 0
    /\ hdr.count > 0
    /\ ~InsertRejected(AddrSpace, h[p].base, h[p].size, 0, strlen(item[p]))

\* C7: header bound: in every reachable state in which the backing file
\* holds a header, hdr.length <= region_size - 16, region_size being the
\* size of the backing file.
C7_HeaderBound ==
  fsize >= HeaderSize => hdr.length <= fsize - HeaderSize

\* C8: zero fill: whenever no call is in progress, every arena byte at an
\* offset >= hdr.length, up to the end of the region, is zero.
C8_ZeroFill ==
  Quiescent => AllZero(Drop(arena, hdr.length))

\* C9: arena/header consistency: whenever no call is in progress, the
\* arena bytes [0, hdr.length) are the strings inserted since the region
\* was initialised, in the order of their insertion, each followed by one
\* zero byte, and hdr.count is their number.
C9_ArenaIsInserted ==
  Quiescent => /\ Take(arena, hdr.length) = Packed(inserted)
               /\ BLen(arena) >= hdr.length
               /\ hdr.count = Len(inserted)

\* C10: cache_notcontains_insert is idempotent: a call with the string of
\* the same process's previous call, which was a cache_notcontains_insert
\* too, returns CACHE_CONTAINS_SUCCESS and leaves hdr.count unchanged.
C10_Idempotent ==
  \A p \in Procs :
    (/\ Ended(p)
     /\ op[p] = "cache_notcontains_insert"
     /\ item[p] = last[p].str)
      => ret[p] = CACHE_CONTAINS_SUCCESS /\ hdr.count = pre[p].hdr.count

\* C11: a cache_notcontains_insert with a non-null handle and string
\* returns one of three values: CACHE_CONTAINS_SUCCESS exactly when the
\* string was stored before the call, and then header and arena are as
\* they were; CACHE_INSERTION_SUCCESS when it was absent and was appended,
\* hdr.count growing by 1; CACHE_INSERTION_FAILED when it was absent and
\* was not appended, header and arena being as they were.
C11_InsertIfAbsentResults ==
  \A p \in Procs :
    (Ended(p) /\ op[p] = "cache_notcontains_insert")
      => /\ pc[p] = "unlock"
         /\ \/ /\ ret[p] = CACHE_CONTAINS_SUCCESS
               /\ item[p] \in Range(pre[p].inserted)
               /\ hdr = pre[p].hdr /\ arena = pre[p].arena
            \/ /\ ret[p] = CACHE_INSERTION_SUCCESS
               /\ item[p] \notin Range(pre[p].inserted)
               /\ hdr.count = pre[p].hdr.count + 1
               /\ item[p] \in Range(inserted)
            \/ /\ ret[p] = CACHE_INSERTION_FAILED
               /\ item[p] \notin Range(pre[p].inserted)
               /\ hdr = pre[p].hdr /\ arena = pre[p].arena

C13_EmptyInsertFails ==
  \A p \in Procs :
    (op[p] = "cache_insert" /\ item[p] = <<>> /\ pc[p] # "insert")
      => /\ pc[p] = "unlock"
         /\ ret[p] = CACHE_INSERTION_FAILED
         /\ hdr = pre[p].hdr /\ arena = pre[p].arena /\ fsize = pre[p].fsize

\* cache_insert("") is about to return from a store that holds a string
C13_Witness ==
  \E p \in Procs :
    /\ op[p] = "cache_insert" /\ item[p] = <<>> /\ pc[p] = "unlock"
    /\ ret[p] = CACHE_INSERTION_FAILED
    /\ hdr.count > 0

\* C14: cross-process visibility: once a cache_insert(s) of one process
\* has returned CACHE_INSERTION_SUCCESS, every cache_contains(s) another
\* process starts afterwards returns CACHE_CONTAINS_SUCCESS.
C14_InsertVisibleToOthers ==
  \A p \in Procs :
    (/\ Ended(p)
     /\ op[p] = "cache_contains"
     /\ \E q \in Procs \ {p} : <<q, item[p]>> \in done)
      => pc[p] = "unlock" /\ ret[p] = CACHE_CONTAINS_SUCCESS

\* C15: attaching never reinitialises: a cache_map on a backing file that
\* exists and was initialised leaves the size of the file, the header and
\* the arena as they were when the call took the lock, whether the call
\* succeeds or its open, ftruncate or mmap fails.
C15_AttachKeepsFile ==
  \A p \in Procs :
    (/\ pc[p] = "unlock"
     /\ op[p] = "cache_map"
     /\ pre[p].inited /\ pre[p].fsize # -1)
      => fsize = pre[p].fsize /\ hdr = pre[p].hdr /\ arena = pre[p].arena

\* C16: initialisation precedes use: no cache_map returns CACHE_OP_SUCCESS
\* by the existing-file path on a file that was not grown to a region size
\* and initialised by a completed creating path; so whenever a cache_map is
\* about to return CACHE_OP_SUCCESS, the file has a region size and has
\* been initialised.
C16_InitialisedBeforeUse ==
  \A p \in Procs :
    (pc[p] = "unlock" /\ op[p] = "cache_map" /\ ret[p] = CACHE_OP_SUCCESS)
      => inited /\ fsize > 0 /\ fsize % PageSize = 0

\* C17: creating attach: a cache_map with valid arguments on a path without
\* backing file, all of whose system calls succeed, returns
\* CACHE_OP_SUCCESS with the file exactly size bytes long, hdr.length =
\* hdr.count = 0 and every arena byte zero, the caller's handle mapped, and
\* the initialisation flushed before the lock is released.
C17_CreatingAttach ==
  \A p \in Procs :
    (/\ pc[p] = "unlock"
     /\ op[p] = "cache_map"
     /\ pre[p].fsize = -1
     /\ h[p].fd /\ h[p].mapped)
      => /\ ret[p] = CACHE_OP_SUCCESS
         /\ fsize = arg[p][4] /\ h[p].size = arg[p][4]
         /\ hdr = ZeroHdr
         /\ BLen(arena) = arg[p][4] - HeaderSize /\ AllZero(arena)
         /\ ~dirty

\* a creating cache_map of two pages is about to release the lock
C17_Witness ==
  \E p \in Procs :
    /\ pc[p] = "unlock" /\ op[p] = "cache_map" /\ pre[p].fsize = -1
    /\ ret[p] = CACHE_OP_SUCCESS
    /\ fsize = 2 * PageSize /\ inited

\* C18: a cache_map called with a null handle, a null fname, a null
\* lockname, size 0 or a size that is no multiple of 0x1000 returns
\* CACHE_EINVAL before any I/O: the step that starts the call leaves the
\* semaphore, the file and every handle as they are and does not take the
\* lock.
C18_InvalidMapArgs ==
  [][\A p \in Procs :
       (/\ pc[p] = "idle"
        /\ op'[p] = "cache_map"
        /\ \/ arg'[p][1] \/ arg'[p][2] \/ arg'[p][3]
           \/ arg'[p][4] = 0
           \/ arg'[p][4] % PageSize # 0)
         => /\ pc'[p] = "ret" /\ ret'[p] = CACHE_EINVAL
            /\ sem' = sem /\ h' = h
            /\ fsize' = fsize /\ hdr' = hdr /\ arena' = arena]_vars

\* a cache_map with a size of a page and 16 bytes is about to return
\* CACHE_EINVAL where there is neither semaphore nor file
C18_Witness ==
  \E p \in Procs :
    /\ op[p] = "cache_map" /\ pc[p] = "ret" /\ ret[p] = CACHE_EINVAL
    /\ arg[p][4] = PageSize + HeaderSize
    /\ sem = -1 /\ fsize = -1 /\ h[p] = NoHandle

\* C19: fixed region size: every handle for which cache_map returned
\* CACHE_OP_SUCCESS has a size equal to the size of the backing file.
C19_HandleSizeIsFileSize ==
  \A p \in Procs : Attached(p) => h[p].size = fsize

---------------------------------------------------------------------------
(* The functions run alone: what a call can return and leave behind when   *)
(* nothing else runs between its _cache_lock and its _cache_unlock.  s is  *)
(* the file when the call took the lock, c the caller's handle.  A result  *)
(* is [ret, hdr, arena, out]; ret = KILLED when a signal ended the call.   *)

KILLED == -1

SeqResult(r, s, o) == [ret |-> r, hdr |-> s.hdr, arena |-> s.arena, out |-> o]

\* the arena bytes of s the handle c can access
SeqData(s, c) == Take(s.arena, Min(c.size, s.fsize) - HeaderSize)

\* _cache_insert(c, str) on s
Seq_cache_insert(s, c, str) ==
  LET slen == strlen(str)
      room == BLen(s.arena) - s.hdr.length
  IN  IF slen = 0 THEN {SeqResult(CACHE_INSERTION_FAILED, s, <<>>)}
      ELSE IF s.fsize < HeaderSize THEN {SeqResult(KILLED, s, <<>>)}
      ELSE IF InsertRejected(AddrSpace, c.base, c.size, s.hdr.length, slen)
      THEN {SeqResult(CACHE_INSERTION_FAILED, s, <<>>)}
      ELSE IF slen <= room
      THEN {[ret |-> CACHE_INSERTION_SUCCESS,
             hdr |-> AddItem(s.hdr, slen),
             arena |-> Store(s.arena, s.hdr.length, str),
             out |-> <<>>]}
      ELSE {[ret |-> KILLED, hdr |-> s.hdr,
             arena |-> Store(s.arena, s.hdr.length, Take(str, k)),
             out |-> <<>>] : k \in {0, IF room > 0 THEN room ELSE 0}}

\* cache_contains(c, str) on s
Seq_cache_contains(s, c, str) ==
  {SeqResult(CASE o = "crash" -> KILLED
               [] o = "found" -> CACHE_CONTAINS_SUCCESS
               [] OTHER -> CACHE_CONTAINS_FAILED, s, <<>>) :
     o \in ContainsOutcomes(SeqData(s, c), str, c.size)}

\* cache_notcontains_insert(c, str) on s
Seq_cache_notcontains_insert(s, c, str) ==
  UNION {CASE o = "crash" -> {SeqResult(KILLED, s, <<>>)}
           [] o = "found" -> {SeqResult(CACHE_CONTAINS_SUCCESS, s, <<>>)}
           [] OTHER -> Seq_cache_insert(s, c, str) :
         o \in ContainsOutcomes(SeqData(s, c), str, c.size)}

\* cache_debug_traverse(c) on s
Seq_cache_debug_traverse(s, c) ==
  LET w == Walk(SeqData(s, c), 0) IN
  {SeqResult(IF o = "crash" THEN KILLED ELSE CACHE_OP_SUCCESS, s,
             IF o = "found" THEN Append(w.items, GARBAGE) ELSE w.items) :
     o \in ScanOutcomes(IF w.stop = "end" THEN "absent" ELSE "oob", c.size)}

\* what the call of p, which has run to its end, returns and leaves behind
Observed(p) ==
  [ret |-> IF pc[p] = "crashed" THEN KILLED ELSE ret[p],
   hdr |-> hdr, arena |-> arena, out |-> out[p]]

\* C20: linearizability by lock order: every cache_insert, cache_contains,
\* cache_notcontains_insert and cache_debug_traverse that has run to its
\* end, whatever other processes did meanwhile, returns and leaves header
\* and arena as the same function can when it runs alone from the state in
\* which the call took the lock; the execution is therefore the sequential
\* execution of the calls in the order in which they took the lock.
C20_LinearizableByLockOrder ==
  \A p \in Procs :
    Ended(p) =>
      CASE op[p] = "cache_insert" ->
             Observed(p) \in Seq_cache_insert(pre[p], h[p], item[p])
        [] op[p] = "cache_contains" ->
             Observed(p) \in Seq_cache_contains(pre[p], h[p], item[p])
        [] op[p] = "cache_notcontains_insert" ->
             Observed(p) \in Seq_cache_notcontains_insert(pre[p], h[p], item[p])
        [] op[p] = "cache_debug_traverse" ->
             Observed(p) \in Seq_cache_debug_traverse(pre[p], h[p])
        [] OTHER -> TRUE

\* a cache_insert has stored the second string of a store whose first
\* string another, attached process inserted
C20_Witness ==
  \E p, q \in Procs :
    /\ p # q
    /\ pc[p] = "unlock" /\ op[p] = "cache_insert"
    /\ ret[p] = CACHE_INSERTION_SUCCESS
    /\ hdr.count = 2 /\ pre[p].hdr.count = 1
    /\ \E x \in done : x[1] = q
    /\ Attached(q)

\* C21: abandoned lock: once a process has stopped between _cache_lock and
\* _cache_unlock it stays stopped, the semaphore stays at 0, and no
\* cache_map, cache_insert, cache_contains, cache_notcontains_insert or
\* cache_debug_traverse of any process gets past _cache_lock or is about
\* to return from behind it: none of them completes.
C21_AbandonedLock ==
  [][\A q \in Procs :
       pc[q] = "crashed"
         => /\ pc'[q] = "crashed"
            /\ sem = 0 /\ sem' = 0
            /\ \A p \in Procs : pc[p] \notin Critical /\ pc'[p] \notin Critical]_vars

\* a process was killed between the strncpy and the header stores of an
\* insert that fits, another, attached process is idle and may call, and the
\* semaphore is taken
C21_Witness ==
  \E p, q \in Procs :
    /\ p # q
    /\ pc[q] = "crashed" /\ op[q] = "cache_insert"
    /\ fsize = h[q].size
    /\ hdr = pre[q].hdr /\ arena # pre[q].arena
    /\ pc[p] = "idle" /\ Attached(p) /\ calls < MaxCalls
    /\ sem = 0

\* C22: persistence across detach: a cache_map that returns
\* CACHE_OP_SUCCESS to a process whose previous call was the cache_unmap
\* of a handle of the same size, on a file no one has changed since,
\* finds the size of the file, hdr.length, hdr.count and every arena byte,
\* and so the result of every cache_contains, as they were at the detach.
C22_PersistsAcrossDetach ==
  \A p \in Procs :
    (/\ pc[p] = "unlock" /\ op[p] = "cache_map"
     /\ ret[p] = CACHE_OP_SUCCESS
     /\ det[p] # NoDet /\ det[p].size = arg[p][4]
     /\ pre[p].fsize = det[p].fsize
     /\ pre[p].hdr = det[p].hdr /\ pre[p].arena = det[p].arena)
      => /\ fsize = det[p].fsize
         /\ hdr = det[p].hdr /\ arena = det[p].arena

\* bit number k of the result r
Bit(r, k) == (r \div 2^k) % 2 = 1

\* C23: a cache_unmap on a non-null handle attempts sem_close, munmap and
\* close whatever became of the others, and its result has the bit of
\* CACHE_SEMCLOSE_FAILED, CACHE_MUNMAP_FAILED and CACHE_CLOSE_FAILED set
\* exactly when that release failed and no other bit; it is
\* CACHE_OP_SUCCESS exactly when all three succeeded.
C23_UnmapResult ==
  \A p \in Procs :
    (pc[p] = "ret" /\ op[p] = "cache_unmap" /\ rel[p] # NoRel)
      => /\ \A i \in 1..3 : rel[p][i] \in {"done", "failed"}
         /\ Bit(ret[p], 10) <=> rel[p][1] = "failed"
         /\ Bit(ret[p], 8) <=> rel[p][2] = "failed"
         /\ Bit(ret[p], 9) <=> rel[p][3] = "failed"
         /\ \A k \in (0..12) \ {8, 9, 10} : ~Bit(ret[p], k)
         /\ ret[p] = CACHE_OP_SUCCESS <=> \A i \in 1..3 : rel[p][i] = "done"

\* a cache_unmap whose sem_close failed and whose munmap and close
\* succeeded is about to return
C23_Witness ==
  \E p \in Procs :
    /\ pc[p] = "ret" /\ op[p] = "cache_unmap"
    /\ rel[p] = <<"failed", "done", "done">>
    /\ ret[p] = CACHE_SEMCLOSE_FAILED
    /\ ~Attached(p)

\* C24: a cache_insert, cache_contains or cache_notcontains_insert called
\* with a null handle or a null string, and a cache_unmap called with a
\* null handle, returns CACHE_EINVAL: the step that starts the call does
\* not take the lock, attempts no release and leaves the semaphore, every
\* handle and the file as they are.
C24_NullArgs ==
  [][\A p \in Procs :
       (/\ pc[p] = "idle"
        /\ \/ /\ op'[p] \in {"cache_insert", "cache_contains",
                             "cache_notcontains_insert"}
              /\ item'[p] = NULL
           \/ /\ op'[p] = "cache_unmap"
              /\ rel'[p] = NoRel)
         => /\ pc'[p] = "ret" /\ ret'[p] = CACHE_EINVAL
            /\ rel'[p] = NoRel
            /\ sem' = sem /\ h' = h
            /\ fsize' = fsize /\ hdr' = hdr /\ arena' = arena]_vars

\* a cache_insert of an attached process is about to return CACHE_EINVAL
\* while another process holds the lock and stores the header
C24_Witness ==
  \E p, q \in Procs :
    /\ p # q
    /\ pc[p] = "ret" /\ op[p] = "cache_insert" /\ ret[p] = CACHE_EINVAL
    /\ Attached(p)
    /\ pc[q] = "store" /\ sem = 0

\* C25: cache_map returns one of CACHE_EINVAL, CACHE_LOCK_INIT_FAILED,
\* CACHE_OPEN_FAILED, CACHE_FTRUNC_FAILED, CACHE_MAP_FAILED and
\* CACHE_OP_SUCCESS; a failure value is set by the step it names (the
\* argument test, sem_open, open, ftruncate, mmap) when that step fails,
\* and CACHE_OP_SUCCESS is returned only with the lock, the fd and the
\* mapping of the handle valid.
C25_MapResults ==
  /\ [](\A p \in Procs :
          (op[p] = "cache_map" /\ pc[p] \in {"ret", "unlock"})
            => /\ ret[p] \in {CACHE_EINVAL, CACHE_LOCK_INIT_FAILED,
                              CACHE_OPEN_FAILED, CACHE_FTRUNC_FAILED,
                              CACHE_MAP_FAILED, CACHE_OP_SUCCESS}
               /\ ret[p] = CACHE_OP_SUCCESS => pc[p] = "unlock" /\ Attached(p)
               /\ ret[p] # CACHE_OP_SUCCESS => ~h[p].fd)
  /\ [][\A p \in Procs :
          (op'[p] = "cache_map" /\ ret'[p] # ret[p])
            => \/ /\ ret'[p] = CACHE_EINVAL /\ pc[p] = "idle"
                  /\ \/ arg'[p][1] \/ arg'[p][2] \/ arg'[p][3]
                     \/ arg'[p][4] = 0 \/ arg'[p][4] % PageSize # 0
               \/ /\ ret'[p] = CACHE_LOCK_INIT_FAILED /\ pc[p] = "idle"
                  /\ ~h'[p].lock /\ sem' = sem
               \/ /\ ret'[p] = CACHE_OPEN_FAILED /\ pc[p] = "open"
                  /\ ~h'[p].fd /\ fsize' = fsize
               \/ /\ ret'[p] = CACHE_FTRUNC_FAILED /\ pc[p] = "ftruncate"
                  /\ fsize' = fsize /\ arena' = arena
               \/ /\ ret'[p] = CACHE_MAP_FAILED
                  /\ pc[p] \in {"mmap_existing", "mmap_created"}
                  /\ ~h'[p].mapped]_vars

\* a creating cache_map whose mmap failed after ftruncate had grown the
\* file is about to return CACHE_MAP_FAILED
C25_Witness ==
  \E p \in Procs :
    /\ op[p] = "cache_map" /\ pc[p] = "unlock"
    /\ ret[p] = CACHE_MAP_FAILED
    /\ pre[p].fsize = -1 /\ fsize = arg[p][4]
    /\ ~h[p].fd /\ ~h[p].mapped /\ h[p].lock

\* C26: cache_contains and cache_debug_traverse are read-only: when such a
\* call has run to its end, whatever the store and the query, the size of
\* the file, hdr.length, hdr.count and every arena byte are as they were
\* when the call took the lock.
C26_ReadOnly ==
  \A p \in Procs :
    (Ended(p) /\ op[p] \in {"cache_contains", "cache_debug_traverse"})
      => /\ fsize = pre[p].fsize
         /\ hdr = pre[p].hdr /\ arena = pre[p].arena
         /\ inserted = pre[p].inserted

\* a cache_contains for a string that is not stored is about to return
\* from a store that holds another string
C26_Witness ==
  \E p \in Procs :
    /\ pc[p] = "unlock" /\ op[p] = "cache_contains"
    /\ ret[p] = CACHE_CONTAINS_FAILED /\ strlen(item[p]) > 0
    /\ hdr.count = 1 /\ fsize = h[p].size

\* C27: cache_debug_traverse reports every stored string once, in the
\* order of insertion, and nothing else: in every reachable state of the
\* store its output is the sequence of the strings inserted with success,
\* hdr.count entries.
C27_TraverseReportsInserted ==
  \A p \in Procs :
    (Ended(p) /\ op[p] = "cache_debug_traverse")
      => /\ pc[p] = "unlock"
         /\ out[p] = pre[p].inserted
         /\ Len(out[p]) = hdr.count

\* C28: traversal stays inside the region: whenever _cache_contains or the
\* loop of cache_debug_traverse is about to scan, also when the arena is
\* exactly full, the scan finds the string it looks for or stops at a zero
\* byte inside the bytes the handle maps, and reads no byte beyond them.
C28_ScanStaysInside ==
  \A p \in Procs :
    /\ pc[p] = "contains"
         => ScanFor(CACHE_DATA(h[p].size), item[p]) # "oob"
    /\ pc[p] = "traverse"
         => Walk(CACHE_DATA(h[p].size), 0).stop = "end"

\* C29: serialized first attach: of the processes that call cache_map on a
\* path without backing file one runs the creating path and the others
\* take the existing-file path: a cache_map that has zero-filled the region
\* and reset its header found a file that no cache_map had initialised
\* and that held no inserted string.
C29_SingleCreator ==
  \A p \in Procs :
    (op[p] = "cache_map" /\ pc[p] = "sync")
      => ~pre[p].inited /\ pre[p].hdr.count = 0

\* C30: single winner: when the previous call of each of two processes is
\* a cache_notcontains_insert of the same non-empty string, and one of
\* them returned CACHE_INSERTION_SUCCESS, the string having been absent and
\* fitting, then the other returned CACHE_CONTAINS_SUCCESS: no string has
\* two winners, in whatever order the calls took the lock.
C30_SingleWinner ==
  \A p, q \in Procs :
    (/\ p # q
     /\ last[p].str # NULL /\ strlen(last[p].str) > 0
     /\ last[q].str = last[p].str
     /\ last[p].ret = CACHE_INSERTION_SUCCESS)
      => last[q].ret = CACHE_CONTAINS_SUCCESS

\* C31: address-wraparound guard: _cache_insert rejects the insert when
\* base + 16 + hdr.length + strlen + 1 passes the end of the address space,
\* and when it goes on to strncpy, the bytes strncpy writes lie inside
\* [base + 16, base + size).
C31_WraparoundGuard ==
  \A p \in Procs :
    pc[p] = "copy" =>
      /\ h[p].base + HeaderSize + hdr.length + strlen(item[p]) + 1 < AddrSpace
      /\ HeaderSize + hdr.length + strlen(item[p]) <= h[p].size

\* C32: append-only: once the backing file exists no step of any process,
\* attaches and detaches included, makes hdr.length or hdr.count smaller
\* or changes an arena byte at an offset below hdr.length.
C32_AppendOnly ==
  [][fsize # -1 =>
       /\ hdr'.length >= hdr.length
       /\ hdr'.count >= hdr.count
       /\ Take(arena', hdr.length) = Take(arena, hdr.length)]_vars

\* the bytes of the backing file process p could access when it took the
\* lock
PreData(p) == Take(pre[p].arena, Min(h[p].size, pre[p].fsize) - HeaderSize)

InsertWritten(p) ==
  /\ hdr = AddItem(pre[p].hdr, strlen(item[p]))
  /\ Take(Drop(arena, pre[p].hdr.length), strlen(item[p])) = item[p]

\* C34: flush ordering: an insert calls _cache_sync when the bytes of the
\* string and both header fields are written, it is about to release the
\* lock with CACHE_INSERTION_SUCCESS only when they are flushed, and while
\* the mapping holds writes that are not flushed the lock is taken, so no
\* process acquires it between a header update and its flush.
C34_FlushOrdering ==
  /\ \A p \in Procs :
       op[p] \in {"cache_insert", "cache_notcontains_insert"} =>
         /\ pc[p] = "sync" => InsertWritten(p)
         /\ (pc[p] = "unlock" /\ ret[p] = CACHE_INSERTION_SUCCESS)
              => InsertWritten(p) /\ ~dirty
  /\ dirty => sem = 0 /\ \E p \in Procs : Holds(p)

\* an insert is flushed and about to release the lock while another attached
\* process is ready to call
C34_Witness ==
  \E p, q \in Procs :
    /\ p # q
    /\ op[p] \in {"cache_insert", "cache_notcontains_insert"}
    /\ pc[p] = "unlock" /\ ret[p] = CACHE_INSERTION_SUCCESS
    /\ ~dirty /\ sem = 0
    /\ hdr.count = pre[p].hdr.count + 1
    /\ pc[q] = "idle" /\ Attached(q) /\ calls < MaxCalls

\* C35: progress without crashes: unless a process has stopped while it
\* holds the lock, every call that has acquired the lock releases it and
\* returns, and when the lock is free while calls wait for it, one of them
\* acquires it.
C35_Progress ==
  /\ \A p \in Procs :
       (pc[p] \in Critical)
         ~> (pc[p] = "idle" \/ \E q \in Procs : pc[q] = "crashed")
  /\ (sem > 0 /\ \E p \in Procs : pc[p] = "wait")
       ~> (sem = 0 /\ \E p \in Procs : pc[p] \in Critical)

\* a call is about to release the lock while another call waits for it
C35_Witness ==
  \E p, q \in Procs :
    /\ pc[p] = "unlock" /\ pc[q] = "wait"
    /\ op[q] = "cache_notcontains_insert"
    /\ sem = 0

\* C36: balanced locking: the semaphore never exceeds 1, and once it exists
\* its value is 1 less the number of calls between _cache_lock and
\* _cache_unlock (those of killed processes included): every call that took
\* the lock and returned, on whatever path, has posted it once, and the
\* value is 1 whenever no call holds the lock.
C36_BalancedLocking ==
  /\ sem <= 1
  /\ IF sem = -1
     THEN \A p \in Procs : ~Holds(p)
     ELSE sem = 1 - Cardinality({p \in Procs : Holds(p)})

\* a cache_map has returned through a failure path (the file it created
\* is still empty), no call is in progress and the semaphore is 1
C36_Witness ==
  /\ \A p \in Procs : pc[p] = "idle" /\ ~Attached(p)
  /\ fsize = 0
  /\ sem = 1
  /\ calls > 0

\* C37: no resource left behind by a failed attach: when cache_map returns
\* CACHE_OPEN_FAILED, CACHE_FTRUNC_FAILED or CACHE_MAP_FAILED the process
\* holds no open file descriptor, no mapping and no open semaphore handle.
C37_FailedAttachHoldsNothing ==
  [][\A p \in Procs :
       (/\ op[p] = "cache_map" /\ pc[p] = "unlock" /\ pc'[p] = "idle"
        /\ ret[p] \in {CACHE_OPEN_FAILED, CACHE_FTRUNC_FAILED,
                       CACHE_MAP_FAILED})
         => ~h'[p].fd /\ ~h'[p].mapped /\ ~h'[p].lock]_vars

=============================================================================
